---- MODULE Spec2Model ----
(***************************************************************************)
(* The two tutorial notebooks as one state machine.                        *)
(*                                                                         *)
(*   tensorflow_tutorial_1.ipynb  (preprocessing, "script 1"):             *)
(*       find_files / sorted / assert / np.unique / TfidfVectorizer /      *)
(*       StratifiedShuffleSplit / fancy indexing / np.savez_compressed     *)
(*   tensorflow_tutorial_2.ipynb  (classifier, "script 2"):                *)
(*       np.load / MLPClassifier.fit / accuracy_score /                    *)
(*       classification_report                                             *)
(*                                                                         *)
(* Conventions.  A Python string is the sequence of its code points, so    *)
(* that sorted() and np.unique order strings as Python does.  A numpy      *)
(* array is a sequence; numpy's 0-based positions are kept as VALUES       *)
(* (target, train_idx, test_idx hold 0-based numbers) and At(a, i) reads   *)
(* 0-based position i.  A document is the bag of the maximal runs of word  *)
(* characters of its decoded text (token |-> occurrences).  TF-IDF weights *)
(* are irrational; a matrix cell is written as the numbers its weight is   *)
(* computed from (see Row).                                                *)
(* A run of a notebook starts a kernel, executes the cells in order, each  *)
(* statement to its end, and ends with the kernel shut down; the notebooks *)
(* are run one at a time, any number of times, in any order.               *)
(***************************************************************************)
EXTENDS Integers, Sequences, FiniteSets, TLC

VARIABLES
    corpus,           \* the directory tree under ./resources/20news-18828/
    archive,          \* ./resources/newsgroup.npz
    \* ---- kernel of notebook 1
    pc1, newsgroup_files, labels, target, document_matrix,
    train_idx, test_idx, yielded,
    train_data, train_target, test_data, test_target,
    nsaves,           \* archive writes of the current preprocessing run
    prev_split,       \* the split indices of the previous completed split
    \* ---- kernel of notebook 2
    pc2, newsgroups, model, pred_acc, accuracy, pred_rep, report

k1vars == <<pc1, newsgroup_files, labels, target, document_matrix,
            train_idx, test_idx, yielded,
            train_data, train_target, test_data, test_target>>
k2vars == <<pc2, newsgroups, model, pred_acc, accuracy, pred_rep, report>>
vars == <<corpus, archive, k1vars, nsaves, prev_split, k2vars>>

(***************************************************************************)
(* Bounds of the model.                                                    *)
(***************************************************************************)
MaxFiles == 8      \* files in a corpus of the class-count family
MaxPerDir == 3     \* files in one directory of such a corpus

(***************************************************************************)
(* Constants of the notebooks.                                             *)
(***************************************************************************)
max_features == 10000
n_splits == 2
test_size_num == 2          \* test_size = 0.2 = 2/10
test_size_den == 10
random_state == 0

\* './resources/20news-18828/'
CorpusPath == <<46,47,114,101,115,111,117,114,99,101,115,47,
                50,48,110,101,119,115,45,49,56,56,50,56,47>>
\* '20news-18828'
RootName == <<50,48,110,101,119,115,45,49,56,56,50,56>>
Sep == <<47>>               \* '/'

Min(a, b) == IF a < b THEN a ELSE b
Range(s) == {s[i] : i \in DOMAIN s}
At(a, i) == a[i + 1]

\* ascending sequence of a small set of integers
SortedInts(S) ==
    [k \in 1..Cardinality(S) |-> CHOOSE x \in S : Cardinality({y \in S : y < x}) = k - 1]

RECURSIVE SumSeq(_)
SumSeq(s) == IF s = <<>> THEN 0 ELSE s[1] + SumSeq(Tail(s))

(***************************************************************************)
(* Python's order on str: code point by code point, a proper prefix first. *)
(***************************************************************************)
StrLess(a, b) ==
    LET n == Min(Len(a), Len(b))
        d == {i \in 1..n : a[i] # b[i]}
    IN  IF d = {} THEN Len(a) < Len(b)
        ELSE LET i == CHOOSE i \in d : \A j \in d : i <= j
             IN  a[i] < b[i]

\* sorted(iterable): ascending, stable
sorted(s) == SortSeq(s, StrLess)

(***************************************************************************)
(* posixpath.join, dirname, basename.                                      *)
(***************************************************************************)
join(a, b) ==
    IF b # <<>> /\ b[1] = Sep[1] THEN b
    ELSE IF a = <<>> \/ a[Len(a)] = Sep[1] THEN a \o b
    ELSE a \o Sep \o b

\* p.rfind('/') + 1, as a 1-based count of the characters up to the last '/'
LastSep(p) ==
    LET S == {i \in 1..Len(p) : p[i] = Sep[1]}
    IN  IF S = {} THEN 0 ELSE CHOOSE i \in S : \A j \in S : j <= i

RECURSIVE RStripSep(_)
RStripSep(p) ==
    IF p # <<>> /\ p[Len(p)] = Sep[1] THEN RStripSep(SubSeq(p, 1, Len(p) - 1))
    ELSE p

dirname(p) ==
    LET head == SubSeq(p, 1, LastSep(p))
    IN  IF head # <<>> /\ RStripSep(head) # <<>> THEN RStripSep(head) ELSE head

basename(p) == SubSeq(p, LastSep(p) + 1, Len(p))

(***************************************************************************)
(* str(k) for k >= 0: the files of a directory are named "1", "2", ...     *)
(***************************************************************************)
RECURSIVE Decimal(_)
Decimal(k) == IF k < 10 THEN <<48 + k>> ELSE Decimal(k \div 10) \o <<48 + (k % 10)>>

(***************************************************************************)
(* The corpus: a directory tree.  dirs holds the directories that exist,   *)
(* as paths relative to the corpus directory (<<>> is the corpus directory *)
(* itself; an absent corpus directory has dirs = {}).  A file is           *)
(* [dir, name, doc].                                                       *)
(***************************************************************************)
Sci == <<115, 99, 105>>                       \* 'sci'
SciMed == <<115, 99, 105, 46, 109, 101, 100>> \* 'sci.med'
Old == <<111, 108, 100>>                      \* 'old'

RECURSIVE Flatten(_)
Flatten(ss) == IF ss = <<>> THEN <<>> ELSE ss[1] \o Flatten(Tail(ss))

\* the names of the files, and of the subdirectories, of directory d
FileNames(fs, d) == {f.name : f \in {g \in fs.files : g.dir = d}}
SubdirNames(fs, d) ==
    {c[Len(c)] : c \in {e \in fs.dirs : Len(e) = Len(d) + 1 /\ SubSeq(e, 1, Len(d)) = d}}

\* os.walk(top) top-down, and for each (root, _, filenames) the
\* os.path.join(root, filename) of every filename.  scan[d] is what
\* os.walk makes of os.scandir's listing of directory d: its file names
\* and its subdirectory names, each in the order scandir gave them.
RECURSIVE WalkFrom(_, _, _, _)
WalkFrom(fs, d, root, scan) ==
    LET filenames == scan[d].files
        subdirs == scan[d].dirs
    IN  [k \in 1..Len(filenames) |-> join(root, filenames[k])]
        \o Flatten([k \in 1..Len(subdirs) |->
                WalkFrom(fs, d \o <<subdirs[k]>>, join(root, subdirs[k]), scan)])

find_files(fs, path, scan) ==
    IF <<>> \in fs.dirs THEN WalkFrom(fs, <<>>, path, scan) ELSE <<>>

\* every order of the elements of S
RECURSIVE Perms(_)
Perms(S) ==
    IF S = {} THEN {<<>>}
    ELSE UNION {{<<x>> \o p : p \in Perms(S \ {x})} : x \in S}

\* the listings os.scandir may give of directory d: the order is the file
\* system's, any order of the files and any order of the subdirectories
Listings(fs, d) ==
    {[files |-> f, dirs |-> s] : f \in Perms(FileNames(fs, d)),
                                 s \in Perms(SubdirNames(fs, d))}

\* every way to list the directories D, and every way to list the tree
RECURSIVE ScansOver(_, _)
ScansOver(fs, D) ==
    IF D = {} THEN {[d \in {} |-> <<>>]}
    ELSE LET d == CHOOSE d \in D : TRUE
         IN  {(d :> l) @@ scan : l \in Listings(fs, d), scan \in ScansOver(fs, D \ {d})}

ScanOrders(fs) == ScansOver(fs, fs.dirs)

\* the path os.walk reports for directory d (d relative to the corpus path)
RECURSIVE DirPath(_)
DirPath(d) ==
    IF d = <<>> THEN CorpusPath
    ELSE join(DirPath(SubSeq(d, 1, Len(d) - 1)), d[Len(d)])

\* what open(path).read() gives the vectorizer
ContentOf(fs, path) ==
    (CHOOSE f \in fs.files : join(DirPath(f.dir), f.name) = path).doc

(***************************************************************************)
(* np.unique(a, return_inverse=True): the sorted distinct values, and for  *)
(* every position the 0-based place of its value among them.               *)
(***************************************************************************)
np_unique(a) ==
    LET S == Range(a)
    IN  [k \in 1..Cardinality(S) |->
            CHOOSE x \in S : Cardinality({y \in S : StrLess(y, x)}) = k - 1]

\* the places counted from 1
np_inverse_onebased(a) ==
    LET u == np_unique(a)
    IN  [i \in DOMAIN a |-> CHOOSE k \in DOMAIN u : u[k] = a[i]]

np_inverse(a) ==
    LET u == np_unique(a)
    IN  [i \in DOMAIN a |-> (CHOOSE k \in DOMAIN u : u[k] = a[i]) - 1]

\* the file's own name in place of its directory's
ParentNames_basename(files) == [i \in DOMAIN files |-> basename(files[i])]

\* [os.path.basename(os.path.dirname(fname)) for fname in newsgroup_files]
ParentNames(files) == [i \in DOMAIN files |-> basename(dirname(files[i]))]

(***************************************************************************)
(* TfidfVectorizer(input='filename', decode_error='replace',               *)
(*                 stop_words='english', max_features=10000).              *)
(* Tokens are numbers: 1 is a one-character word, 2 and 3 are English stop *)
(* words, a number above 3 is an ordinary lower-case word, and -t is t     *)
(* written with capitals.  The analyzer lower-cases, keeps the tokens of   *)
(* two or more word characters (token_pattern), drops the stop words.      *)
(* To reach the cap of 10000 features with small documents, one token      *)
(* stands for a block of max_features - 2 distinct words that always occur *)
(* together and equally often: Multiplicity gives the number of words of a *)
(* token.  The words of a block are neighbours in the vocabulary, and      *)
(* their columns are equal, so a row of the matrix is written as the       *)
(* sequence of <<cell, number of neighbouring columns holding it>>.        *)
(***************************************************************************)
ShortTokens == {1}
StopWords == {2, 3}
BlockTokens == {100}
Lower(t) == IF t < 0 THEN -t ELSE t
Multiplicity(u) == IF u \in BlockTokens THEN max_features - 2 ELSE 1

Terms(doc) == {Lower(t) : t \in DOMAIN doc} \ (ShortTokens \cup StopWords)

TermCount(doc, u) ==
    (IF u \in DOMAIN doc THEN doc[u] ELSE 0) + (IF -u \in DOMAIN doc THEN doc[-u] ELSE 0)

Vocabulary(docs) == UNION {Terms(docs[i]) : i \in DOMAIN docs}

\* number of distinct words of a set of terms
Words(S) == LET ts == SortedInts(S) IN SumSeq([k \in DOMAIN ts |-> Multiplicity(ts[k])])

\* corpus-wide term frequency, the score max_features ranks by
TermFreqs(docs) ==
    [u \in Vocabulary(docs) |-> SumSeq([i \in DOMAIN docs |-> TermCount(docs[i], u)])]

\* the ways to keep exactly `need` words among the words of the terms ts
RECURSIVE Distribute(_, _)
Distribute(ts, need) ==
    IF ts = <<>> THEN (IF need = 0 THEN {<<>>} ELSE {})
    ELSE LET rest == Tail(ts)
             room == Words(Range(rest))
             lo == IF need > room THEN need - room ELSE 0
             hi == Min(Multiplicity(ts[1]), need)
         IN  UNION {{<<j>> \o g : g \in Distribute(rest, need - j)} : j \in lo..hi}

\* no cut: every word of the vocabulary is kept
KeptSets_nolimit(tfs, limit) == {[u \in DOMAIN tfs |-> Multiplicity(u)]}

\* _limit_features: the `limit` words of highest frequency; among equal
\* frequencies at the cut the argsort decides, so every choice is possible.
\* The result gives, for every term, how many of its words are kept.
KeptSets(tfs, limit) ==
    LET V == DOMAIN tfs
        hi(v) == {u \in V : tfs[u] > v}
        eq(v) == {u \in V : tfs[u] = v}
    IN  IF Words(V) <= limit THEN {[u \in V |-> Multiplicity(u)]}
        ELSE LET v == CHOOSE v \in Range(tfs) :
                        /\ Words(hi(v)) <= limit
                        /\ Words(hi(v)) + Words(eq(v)) > limit
                 ties == SortedInts(eq(v))
                 place(u) == CHOOSE k \in DOMAIN ties : ties[k] = u
             IN  {[u \in V |-> IF u \in hi(v) THEN Multiplicity(u)
                               ELSE IF u \in eq(v) THEN g[place(u)] ELSE 0] :
                    g \in Distribute(ties, limit - Words(hi(v)))}

\* document frequency of term u
DocFreq(docs, u) == Cardinality({i \in DOMAIN docs : TermCount(docs[i], u) > 0})

\* the kept terms in vocabulary order, each with the number of its columns
\* and what its idf = ln((1 + n) / (1 + df)) + 1 is computed from
Columns(docs, K) ==
    LET ts == SortedInts({u \in DOMAIN K : K[u] > 0})
    IN  [j \in DOMAIN ts |-> [term |-> ts[j], columns |-> K[ts[j]],
                               df |-> DocFreq(docs, ts[j]), n |-> Len(docs)]]

RECURSIVE GCD(_, _)
GCD(a, b) == IF b = 0 THEN a ELSE GCD(b, a % b)

RECURSIVE GCDSeq(_)
GCDSeq(a) == IF a = <<>> THEN 0 ELSE GCD(a[1], GCDSeq(Tail(a)))

\* one row of the matrix: the counts of the kept terms, weighted by idf and
\* divided by the row's l2 norm (a row of zeros stays).  The cell of term j
\* is tf_j * idf_j / sqrt(sum_k columns_k * (tf_k * idf_k)^2), an irrational
\* number in general; it is written [tf, df, n] with the tf of the row
\* divided by their greatest common divisor, which leaves the cell's value
\* as it is and makes two rows of one matrix equal exactly when they are
\* written the same.
Row(doc, cols) ==
    LET counts == [j \in DOMAIN cols |-> TermCount(doc, cols[j].term)]
        g == GCDSeq(counts)
    IN  [j \in DOMAIN cols |->
            <<[tf |-> IF g = 0 THEN 0 ELSE counts[j] \div g,
               df |-> cols[j].df, n |-> cols[j].n],
              cols[j].columns>>]

\* fit_transform(files).toarray() for one choice K of the kept words
DocumentMatrix(docs, K) ==
    LET cols == Columns(docs, K) IN [i \in DOMAIN docs |-> Row(docs[i], cols)]

\* number of columns of a row, and of a matrix with at least one row
RowWidth(row) == SumSeq([j \in DOMAIN row |-> row[j][2]])
Width(m) == RowWidth(m[1])

(***************************************************************************)
(* numpy.random.RandomState(seed): the Mersenne Twister MT19937 seeded by  *)
(* init_genrand(seed).  MT19937[seed] holds the first outputs of the       *)
(* generator, each reduced to its low 8 bits: a shuffle of an array of at  *)
(* most 256 elements reads nothing else of an output.  A generator is the  *)
(* stream with the place of its next output.                               *)
(***************************************************************************)
MT19937 ==
    (0 :> <<172, 47, 117, 192, 67, 251, 195, 103, 9, 211, 21, 242, 36, 87, 70, 216,
          88, 140, 58, 193, 230, 39, 87, 174, 88, 81, 165, 25, 77, 72, 9, 148,
          115, 208, 243, 197, 254, 79, 175, 192, 82, 99, 216, 177, 243, 29, 147, 147,
          142, 167, 32, 193, 9, 185, 127, 32, 31, 202, 244, 151, 163, 254, 203, 114,
          183, 28, 34, 128, 128, 164, 53, 133, 38, 232, 244, 17, 79, 132, 105, 42,
          186, 31, 120, 1, 65, 231, 169, 57, 35, 102, 119, 11, 174, 82, 91, 128>>)
    @@
    (1 :> <<37, 235, 140, 72, 255, 137, 203, 133, 79, 192, 144, 129, 204, 71, 237, 252,
          134, 25, 178, 20, 254, 101, 146, 212, 139, 252, 234, 156, 157, 142, 50, 68,
          215, 215, 233, 241, 247, 222, 96, 86, 141, 233, 137, 7, 63, 61, 22, 57,
          1, 128, 60, 209, 8, 216, 141, 115, 175, 234, 121, 200, 30, 71, 131, 198,
          149, 49, 57, 3, 196, 24, 241, 43, 76, 26, 52, 80, 109, 115, 41, 210,
          15, 64, 196, 25, 111, 226, 215, 135, 26, 153, 104, 22, 9, 195, 231, 126>>)
    @@
    (2 :> <<168, 15, 237, 72, 22, 43, 210, 75, 104, 7, 162, 177, 95, 75, 213, 47,
          63, 31, 218, 148, 124, 116, 37, 167, 195, 102, 4, 170, 107, 51, 103, 38,
          234, 33, 58, 124, 255, 67, 69, 88, 196, 46, 198, 95, 211, 121, 31, 194,
          80, 52, 238, 204, 50, 132, 218, 63, 207, 49, 39, 255, 174, 136, 178, 237,
          250, 15, 233, 237, 136, 247, 145, 150, 248, 250, 117, 73, 185, 105, 110, 252,
          218, 190, 83, 96, 43, 32, 26, 242, 136, 76, 254, 138, 40, 34, 60, 137>>)

\* the smallest 2^k - 1 that is at least max
RECURSIVE MaskFrom(_, _)
MaskFrom(max, m) == IF m >= max THEN m ELSE MaskFrom(max, 2 * m + 1)

\* random_interval(max): outputs are masked and drawn again until one is
\* at most max
RECURSIVE random_interval(_, _)
random_interval(max, g) ==
    IF max = 0 THEN [value |-> 0, g |-> g]
    ELSE LET v == g.mt[g.i] % (MaskFrom(max, 0) + 1)
             next == [g EXCEPT !.i = g.i + 1]
         IN  IF v <= max THEN [value |-> v, g |-> next]
             ELSE random_interval(max, next)

\* rng.shuffle: for i in reversed(range(1, n)): swap a[i], a[interval(i)]
RECURSIVE ShuffleFrom(_, _, _)
ShuffleFrom(a, i, g) ==
    IF i < 1 THEN [a |-> a, g |-> g]
    ELSE LET r == random_interval(i, g)
         IN  ShuffleFrom([a EXCEPT ![i + 1] = a[r.value + 1], ![r.value + 1] = a[i + 1]],
                         i - 1, r.g)

\* rng.permutation(a): a shuffled copy of the array a
Shuffled(a, g) == ShuffleFrom(a, Len(a) - 1, g)

\* rng.permutation(n): a permutation of 0..n-1
Perm(n, g) == Shuffled([i \in 1..n |-> i - 1], g)

\* rng.choice(a, size=k, replace=False): a[rng.permutation(len(a))[:k]]
Choice(a, k, g) ==
    LET p == Perm(Len(a), g)
    IN  [a |-> [i \in 1..k |-> a[p.a[i] + 1]], g |-> p.g]

(***************************************************************************)
(* sklearn.model_selection.StratifiedShuffleSplit.                         *)
(***************************************************************************)
CeilDiv(a, b) == (a + b - 1) \div b

\* the test size rounded down, never below one document
NTest_floor(n) == IF (test_size_num * n) \div test_size_den = 0 THEN 1
                  ELSE (test_size_num * n) \div test_size_den

\* _validate_shuffle_split: n_test = ceil(test_size * n_samples),
\* n_train = n_samples - n_test  (train_size is None)
NTest(n) == CeilDiv(test_size_num * n, test_size_den)
NTrain(n) == n - NTest(n)

\* classes, y_indices = np.unique(y, return_inverse=True)
Classes(y) == SortedInts(Range(y))
YIndices(y) == [i \in DOMAIN y |-> CHOOSE c \in DOMAIN Classes(y) : Classes(y)[c] = y[i]]

\* np.bincount(y_indices)
ClassCounts(y) ==
    LET yi == YIndices(y)
    IN  [c \in DOMAIN Classes(y) |-> Cardinality({i \in DOMAIN y : yi[i] = c})]

\* the three ValueErrors of _iter_indices
SplitRaises(y) ==
    LET counts == ClassCounts(y)
    IN  \/ \E c \in DOMAIN counts : counts[c] < 2
        \/ NTrain(Len(y)) < Len(counts)
        \/ NTest(Len(y)) < Len(counts)

\* _approximate_mode's loop over the remainders, largest first: the classes
\* of one remainder are drawn from together, rng.choice breaking the tie.
\* rem holds the remainders as numerators over the common denominator.
RECURSIVE AddByRemainder(_, _, _, _, _)
AddByRemainder(floored, rem, values, need, g) ==
    IF need = 0 \/ values = <<>> THEN [n |-> floored, g |-> g]
    ELSE LET inds == SortedInts({c \in DOMAIN rem : rem[c] = values[1]})
             add_now == Min(Len(inds), need)
             ch == Choice(inds, add_now, g)
             picked == Range(ch.a)
         IN  AddByRemainder([c \in DOMAIN floored |->
                                IF c \in picked THEN floored[c] + 1 ELSE floored[c]],
                            rem, Tail(values), need - add_now, ch.g)

\* _approximate_mode(class_counts, n_draws, rng): n_draws spread over the
\* classes in proportion to class_counts, each class getting the floor or
\* the ceiling of its share.  The library computes the shares
\* class_counts / total * n_draws in double precision; floor and remainder
\* are taken exactly here, which gives the same floors and the same order
\* and ties of the remainders for every total up to 13.
ApproximateMode(class_counts, n_draws, g) ==
    LET total == SumSeq(class_counts)
        floored == [c \in DOMAIN class_counts |-> (n_draws * class_counts[c]) \div total]
        rem == [c \in DOMAIN class_counts |-> (n_draws * class_counts[c]) % total]
        need == n_draws - SumSeq(floored)
        asc == SortedInts(Range(rem))
        values == [k \in 1..Len(asc) |-> asc[Len(asc) + 1 - k]]
    IN  IF need > 0 THEN AddByRemainder(floored, rem, values, need, g)
        ELSE [n |-> floored, g |-> g]

\* for i in range(n_classes): permutation = rng.permutation(class_counts[i]);
\* the class's indices taken in that order go to train (the first n_i[i])
\* and to test (the next t_i[i])
RECURSIVE PerClass(_, _, _, _, _, _, _)
PerClass(c, class_indices, n_i, t_i, train, test, g) ==
    IF c > Len(class_indices) THEN [train |-> train, test |-> test, g |-> g]
    ELSE LET p == Perm(Len(class_indices[c]), g)
             perm_indices == [k \in DOMAIN p.a |-> class_indices[c][p.a[k] + 1]]
         IN  PerClass(c + 1, class_indices, n_i, t_i,
                      train \o SubSeq(perm_indices, 1, n_i[c]),
                      test \o SubSeq(perm_indices, n_i[c] + 1, n_i[c] + t_i[c]),
                      p.g)

\* a split by position, classes not looked at: the leading documents are
\* the test subset, the others the train subset
FirstSplit_unstratified(y, g) ==
    [train |-> [k \in 1..NTrain(Len(y)) |-> NTest(Len(y)) + k - 1],
     test |-> [k \in 1..NTest(Len(y)) |-> k - 1]]

\* the first (train, test) that sss.split(X, y) yields, from generator g
FirstSplit(y, g) ==
    LET counts == ClassCounts(y)
        yi == YIndices(y)
        am == ApproximateMode(counts, NTrain(Len(y)), g)
        remaining == [c \in DOMAIN counts |-> counts[c] - am.n[c]]
        tm == ApproximateMode(remaining, NTest(Len(y)), am.g)
        class_indices == [c \in DOMAIN counts |->
                             SortedInts({i - 1 : i \in {j \in DOMAIN y : yi[j] = c}})]
        pc == PerClass(1, class_indices, am.n, tm.n, <<>>, <<>>, tm.g)
        train == Shuffled(pc.train, pc.g)
        test == Shuffled(pc.test, train.g)
    IN  [train |-> train.a, test |-> test.a]

\* a[:len(idx)]: the leading rows, whatever idx holds
Take_slice(a, idx) == [k \in DOMAIN idx |-> a[k]]

\* a[idx]: numpy's indexing of an array by an array of positions
Take(a, idx) == [k \in DOMAIN idx |-> At(a, idx[k])]

(***************************************************************************)
(* sklearn.metrics and MLPClassifier.  A fitted classifier is kept as the  *)
(* classes it learnt and the function it computes on the rows it is asked  *)
(* about; which function fit() arrives at depends on its random weights    *)
(* (random_state=None) and is left open.                                   *)
(***************************************************************************)
\* model.predict(X)
Predict(m, X) == [k \in DOMAIN X |-> m.f[X[k]]]

\* the error rate in place of the accuracy
accuracy_score_errors(y_true, y_pred) ==
    [num |-> Cardinality({k \in DOMAIN y_true : y_true[k] # y_pred[k]}),
     den |-> Len(y_true)]

\* accuracy_score(y_true, y_pred) = mean(y_true == y_pred), as the fraction
\* num / den
accuracy_score(y_true, y_pred) ==
    [num |-> Cardinality({k \in DOMAIN y_true : y_true[k] = y_pred[k]}),
     den |-> Len(y_true)]

\* classification_report(y_true, y_pred): for every label occurring in
\* y_true or y_pred the counts its precision, recall and f1 are made of,
\* and its support
classification_report(y_true, y_pred) ==
    [c \in Range(y_true) \cup Range(y_pred) |->
        [tp |-> Cardinality({k \in DOMAIN y_true : y_true[k] = c /\ y_pred[k] = c}),
         fp |-> Cardinality({k \in DOMAIN y_true : y_true[k] # c /\ y_pred[k] = c}),
         fn |-> Cardinality({k \in DOMAIN y_true : y_true[k] = c /\ y_pred[k] # c}),
         support |-> Cardinality({k \in DOMAIN y_true : y_true[k] = c})]]

(***************************************************************************)
(* The corpora the model starts from.                                      *)
(*   Class-count family: up to MaxFiles files, at most MaxPerDir in a      *)
(*   directory, spread over the corpus directory itself, sci/, sci/old/    *)
(*   and sci.med/old/ (two directories of one name make one class), with   *)
(*   short documents.                                                      *)
(*   Text family: two files in sci/ with documents that are empty, hold    *)
(*   only stop words, or hold about max_features distinct words.           *)
(***************************************************************************)
NoDoc == [t \in {} |-> 0]

DocFor(di, k) ==
    (1 :> 1) @@ (2 :> 1) @@ ((10 + di) :> (1 + (k % 2))) @@ ((20 + (k % 3)) :> 1)
    @@ (IF k % 2 = 0 THEN (-(10 + di)) :> 1 ELSE NoDoc)

FilesIn(dir, n, di) ==
    {[dir |-> dir, name |-> Decimal(k), doc |-> DocFor(di, k)] : k \in 1..n}

AllDirs == {<<>>, <<Sci>>, <<Sci, Old>>, <<SciMed>>, <<SciMed, Old>>}

CountCorpora ==
    {[dirs |-> AllDirs,
      files |-> FilesIn(<<>>, q[1], 0) \cup FilesIn(<<Sci>>, q[2], 1)
                \cup FilesIn(<<Sci, Old>>, q[3], 2) \cup FilesIn(<<SciMed, Old>>, q[4], 3)] :
        q \in {c \in [1..4 -> 0..MaxPerDir] : c[1] + c[2] + c[3] + c[4] <= MaxFiles}}

\* the corpus directory missing, and present but empty
BareCorpora == {[dirs |-> {}, files |-> {}], [dirs |-> {<<>>}, files |-> {}]}

SmallDocs ==
    {NoDoc,
     (2 :> 1) @@ (-3 :> 2) @@ (1 :> 1),
     (10 :> 1) @@ (11 :> 1),
     (10 :> 2) @@ (11 :> 2),
     (10 :> 1) @@ (-10 :> 2) @@ (11 :> 1) @@ (2 :> 1),
     (12 :> 1) @@ (11 :> 3)}

\* documents holding the block of max_features - 2 words and up to three more
BigDocs ==
    {(100 :> 2),
     (100 :> 2) @@ (10 :> 1),
     (100 :> 2) @@ (10 :> 1) @@ (11 :> 1),
     (100 :> 2) @@ (10 :> 1) @@ (11 :> 1) @@ (12 :> 1),
     (100 :> 1) @@ (10 :> 1) @@ (11 :> 1) @@ (12 :> 1)}

TextCorpora ==
    {[dirs |-> {<<>>, <<Sci>>},
      files |-> {[dir |-> <<Sci>>, name |-> Decimal(1), doc |-> d[1]],
                 [dir |-> <<Sci>>, name |-> Decimal(2), doc |-> d[2]]}] :
        d \in (SmallDocs \cup BigDocs) \X SmallDocs}

NoArchive ==
    [present |-> FALSE, train_data |-> <<>>, train_target |-> <<>>,
     test_data |-> <<>>, test_target |-> <<>>, labels |-> <<>>]
NoModel == [classes |-> {}, f |-> <<>>]
NoSplit == [valid |-> FALSE, train |-> <<>>, test |-> <<>>]
NoScore == [num |-> 0, den |-> 0]

Kernel1Fresh ==
    /\ newsgroup_files' = <<>> /\ labels' = <<>> /\ target' = <<>>
    /\ document_matrix' = <<>> /\ train_idx' = <<>> /\ test_idx' = <<>>
    /\ yielded' = 0
    /\ train_data' = <<>> /\ train_target' = <<>>
    /\ test_data' = <<>> /\ test_target' = <<>>

Kernel2Fresh ==
    /\ newsgroups' = NoArchive /\ model' = NoModel
    /\ pred_acc' = <<>> /\ accuracy' = NoScore
    /\ pred_rep' = <<>> /\ report' = <<>>

\* nothing has run yet and no archive has been written
Fresh ==
    /\ archive = NoArchive
    /\ pc1 = "idle" /\ pc2 = "idle"
    /\ newsgroup_files = <<>> /\ labels = <<>> /\ target = <<>>
    /\ document_matrix = <<>> /\ train_idx = <<>> /\ test_idx = <<>>
    /\ yielded = 0
    /\ train_data = <<>> /\ train_target = <<>>
    /\ test_data = <<>> /\ test_target = <<>>
    /\ nsaves = 0 /\ prev_split = NoSplit
    /\ newsgroups = NoArchive /\ model = NoModel
    /\ pred_acc = <<>> /\ accuracy = NoScore
    /\ pred_rep = <<>> /\ report = <<>>

Init ==
    /\ corpus \in CountCorpora \cup BareCorpora \cup TextCorpora
    /\ Fresh

(***************************************************************************)
(* Notebook 1.  Cells run one after the other, each statement to its end;  *)
(* an exception ends the run.  The notebooks are run one at a time, each   *)
(* any number of times, in any order.                                      *)
(***************************************************************************)
Failed1 == {"aborted", "vectorize_error", "split_error"}
Failed2 == {"load_error"}

\* seeds the operating system's entropy may give a RandomState(None)
Entropy == {1, 2}

\* RandomState(None): the stream comes from the operating system's entropy
RandomState_entropy(seed, entropy) == [mt |-> MT19937[entropy], i |-> 1]

\* check_random_state(seed): a generator at the start of the seed's stream;
\* the operating system's entropy plays no part
RandomState(seed, entropy) == [mt |-> MT19937[seed], i |-> 1]

\* start a kernel, run the imports and the def of find_files
Start1 ==
    /\ pc1 = "idle" /\ pc2 = "idle"
    /\ pc1' = "started"
    /\ UNCHANGED <<corpus, archive, newsgroup_files, labels, target,
                   document_matrix, train_idx, test_idx, yielded, train_data,
                   train_target, test_data, test_target, nsaves, prev_split, k2vars>>

\* newsgroup_files = sorted(find_files('./resources/20news-18828/'))
Load ==
    /\ pc1 = "started"
    /\ \E scan \in ScanOrders(corpus) :
          newsgroup_files' = sorted(find_files(corpus, CorpusPath, scan))
    /\ pc1' = "loaded"
    /\ UNCHANGED <<corpus, archive, labels, target, document_matrix,
                   train_idx, test_idx, yielded, train_data, train_target,
                   test_data, test_target, nsaves, prev_split, k2vars>>

\* the assertion compiled away (python -O)
AssertHolds_skipped(files) == TRUE

\* assert len(newsgroup_files) != 0
AssertHolds(files) == Len(files) # 0

Assert1 ==
    /\ pc1 = "loaded"
    /\ pc1' = IF AssertHolds(newsgroup_files) THEN "asserted" ELSE "aborted"
    /\ UNCHANGED <<corpus, archive, newsgroup_files, labels, target,
                   document_matrix, train_idx, test_idx, yielded, train_data,
                   train_target, test_data, test_target, nsaves, prev_split, k2vars>>

\* labels, target = np.unique([...], return_inverse=True)
Encode ==
    /\ pc1 = "asserted"
    /\ labels' = np_unique(ParentNames(newsgroup_files))
    /\ target' = np_inverse(ParentNames(newsgroup_files))
    /\ pc1' = "encoded"
    /\ UNCHANGED <<corpus, archive, newsgroup_files, document_matrix,
                   train_idx, test_idx, yielded, train_data, train_target,
                   test_data, test_target, nsaves, prev_split, k2vars>>

\* the documents fit_transform reads, in the order of the list it is given
Documents(files) == [i \in DOMAIN files |-> ContentOf(corpus, files[i])]

\* document_matrix = vectorizer.fit_transform(newsgroup_files).toarray()
\* (ValueError "empty vocabulary" when no document holds a term)
Vectorize ==
    /\ pc1 = "encoded"
    /\ LET docs == Documents(newsgroup_files)
       IN  IF Vocabulary(docs) = {}
           THEN pc1' = "vectorize_error" /\ document_matrix' = document_matrix
           ELSE /\ \E K \in KeptSets(TermFreqs(docs), max_features) :
                     document_matrix' = DocumentMatrix(docs, K)
                /\ pc1' = "vectorized"
    /\ UNCHANGED <<corpus, archive, newsgroup_files, labels, target,
                   train_idx, test_idx, yielded, train_data, train_target,
                   test_data, test_target, nsaves, prev_split, k2vars>>

\* sss = StratifiedShuffleSplit(2, test_size=0.2, random_state=0)
\* train_idx, test_idx = next(sss.split(document_matrix, target))
Split ==
    /\ pc1 = "vectorized"
    /\ IF SplitRaises(target)
       THEN /\ pc1' = "split_error"
            /\ UNCHANGED <<train_idx, test_idx, yielded>>
       ELSE /\ \E entropy \in Entropy :
                 LET sp == FirstSplit(target, RandomState(random_state, entropy))
                 IN  train_idx' = sp.train /\ test_idx' = sp.test
            /\ yielded' = 1
            /\ pc1' = "split"
    /\ UNCHANGED <<corpus, archive, newsgroup_files, labels, target,
                   document_matrix, train_data, train_target,
                   test_data, test_target, nsaves, prev_split, k2vars>>

\* train_data = document_matrix[train_idx] ... test_target = target[test_idx]
Index ==
    /\ pc1 = "split"
    /\ train_data' = Take(document_matrix, train_idx)
    /\ train_target' = Take(target, train_idx)
    /\ test_data' = Take(document_matrix, test_idx)
    /\ test_target' = Take(target, test_idx)
    /\ pc1' = "indexed"
    /\ UNCHANGED <<corpus, archive, newsgroup_files, labels, target,
                   document_matrix, train_idx, test_idx, yielded,
                   nsaves, prev_split, k2vars>>

\* the archive written right after the split, before the four arrays exist
Save_early ==
    /\ pc1 = "split"
    /\ archive' = [present |-> TRUE,
                   train_data |-> train_data, train_target |-> train_target,
                   test_data |-> test_data, test_target |-> test_target,
                   labels |-> labels]
    /\ nsaves' = nsaves + 1
    /\ pc1' = "done"
    /\ UNCHANGED <<corpus, newsgroup_files, labels, target,
                   document_matrix, train_idx, test_idx, yielded, train_data,
                   train_target, test_data, test_target, prev_split, k2vars>>

\* np.savez_compressed('./resources/newsgroup.npz', ...)
Save ==
    /\ pc1 = "indexed"
    /\ archive' = [present |-> TRUE,
                   train_data |-> train_data, train_target |-> train_target,
                   test_data |-> test_data, test_target |-> test_target,
                   labels |-> labels]
    /\ nsaves' = nsaves + 1
    /\ pc1' = "done"
    /\ UNCHANGED <<corpus, newsgroup_files, labels, target,
                   document_matrix, train_idx, test_idx, yielded, train_data,
                   train_target, test_data, test_target, prev_split, k2vars>>

(***************************************************************************)
(* Notebook 2.                                                             *)
(***************************************************************************)
Start2 ==
    /\ pc1 = "idle" /\ pc2 = "idle"
    /\ pc2' = "started"
    /\ UNCHANGED <<corpus, archive, k1vars, nsaves, prev_split,
                   newsgroups, model, pred_acc, accuracy, pred_rep, report>>

\* newsgroups = np.load('./resources/newsgroup.npz')
\* (FileNotFoundError when the archive is not there)
LoadArchive ==
    /\ pc2 = "started"
    /\ IF archive.present
       THEN newsgroups' = archive /\ pc2' = "loaded"
       ELSE newsgroups' = newsgroups /\ pc2' = "load_error"
    /\ UNCHANGED <<corpus, archive, k1vars, nsaves, prev_split,
                   model, pred_acc, accuracy, pred_rep, report>>

\* the classifiers fit(X, y) may return: classes_ = np.unique(y), and any
\* function from rows to classes_
Fitted(X, y, rows) ==
    {[classes |-> Range(y), f |-> g] : g \in [rows -> Range(y)]}

\* model = MLPClassifier(...); model.fit(train_data, train_target)
Fit ==
    /\ pc2 = "loaded"
    /\ model' \in Fitted(newsgroups.train_data, newsgroups.train_target,
                          Range(newsgroups.test_data))
    /\ pc2' = "fitted"
    /\ UNCHANGED <<corpus, archive, k1vars, nsaves, prev_split,
                   newsgroups, pred_acc, accuracy, pred_rep, report>>

\* accuracy = accuracy_score(test_target, model.predict(test_data))
Accuracy ==
    /\ pc2 = "fitted"
    /\ pred_acc' = Predict(model, newsgroups.test_data)
    /\ accuracy' = accuracy_score(newsgroups.test_target, pred_acc')
    /\ pc2' = "scored"
    /\ UNCHANGED <<corpus, archive, k1vars, nsaves, prev_split,
                   newsgroups, model, pred_rep, report>>

\* print(classification_report(test_target, model.predict(test_data)))
Report ==
    /\ pc2 = "scored"
    /\ pred_rep' = Predict(model, newsgroups.test_data)
    /\ report' = classification_report(newsgroups.test_target, pred_rep')
    /\ pc2' = "done"
    /\ UNCHANGED <<corpus, archive, k1vars, nsaves, prev_split,
                   newsgroups, model, pred_acc, accuracy>>

\* the run is over (its last cell ran, or an exception ended it) and the
\* kernel is shut down: its variables are gone, the archive stays
Shutdown1 ==
    /\ pc1 \in Failed1 \cup {"done"}
    /\ pc1' = "idle"
    /\ Kernel1Fresh
    /\ nsaves' = 0
    /\ prev_split' = IF pc1 = "done"
                        THEN [valid |-> TRUE, train |-> train_idx, test |-> test_idx]
                        ELSE prev_split
    /\ UNCHANGED <<corpus, archive, k2vars>>

Shutdown2 ==
    /\ pc2 \in Failed2 \cup {"done"}
    /\ pc2' = "idle"
    /\ Kernel2Fresh
    /\ UNCHANGED <<corpus, archive, k1vars, nsaves, prev_split>>

Next ==
    \/ Start1 \/ Load \/ Assert1 \/ Encode \/ Vectorize \/ Split \/ Index \/ Save
    \/ Shutdown1
    \/ Start2 \/ LoadArchive \/ Fit \/ Accuracy \/ Report \/ Shutdown2

Spec == Init /\ [][Next]_vars

(***************************************************************************)
(* Stages of a preprocessing run, by what has been built.                  *)
(***************************************************************************)
PastLoad == {"loaded", "aborted", "asserted", "encoded", "vectorized", "vectorize_error",
             "split", "split_error", "indexed", "done"}
PastEncode == {"encoded", "vectorized", "vectorize_error", "split", "split_error",
               "indexed", "done"}
PastVectorize == {"vectorized", "split", "split_error", "indexed", "done"}
PastSplit == {"split", "indexed", "done"}
PastIndex == {"indexed", "done"}

\* the file of the corpus that a path names
FileAt(path) == CHOOSE f \in corpus.files : join(DirPath(f.dir), f.name) = path

\* number of documents of class c in a label vector
CountOf(y, c) == Cardinality({k \in DOMAIN y : y[k] = c})

\* the recorded run of notebook 2: the support column of its report, and
\* the number of documents of the corpus 20news-18828
recorded_support == <<160, 195, 197, 196, 192, 196, 194, 198, 199, 199,
                      200, 198, 196, 198, 197, 200, 182, 188, 155, 126>>
corpus_documents == 18828

\* the sum of a field of the report over the classes S
RECURSIVE SumOver(_, _, _)
SumOver(r, field, S) ==
    IF S = {} THEN 0
    ELSE LET c == CHOOSE c \in S : TRUE
         IN  r[c][field] + SumOver(r, field, S \ {c})

\* the name of the directory that directly holds a file of the corpus
HolderName(f) == IF f.dir = <<>> THEN RootName ELSE f.dir[Len(f.dir)]

\* the arrays of a kernel of notebook 1, and of notebook 2
Arrays1 == <<newsgroup_files, labels, target, document_matrix, train_idx, test_idx,
             train_data, train_target, test_data, test_target>>
Arrays2 == <<newsgroups, model, pred_acc, accuracy, pred_rep, report>>
Blank1 == <<>>
Blank2 == <<NoArchive, NoModel, <<>>, NoScore, <<>>, <<>>>>

\* the stage each array is built in: before it the array is not there
C9_Staged ==
    /\ pc1 \in {"idle", "started"} => newsgroup_files = <<>>
    /\ pc1 \notin PastEncode => (labels = <<>> /\ target = <<>>)
    /\ pc1 \notin PastVectorize => document_matrix = <<>>
    /\ pc1 \notin PastSplit => (train_idx = <<>> /\ test_idx = <<>> /\ yielded = 0)
    /\ pc1 \notin PastIndex =>
          (train_data = <<>> /\ train_target = <<>> /\ test_data = <<>> /\ test_target = <<>>)
    /\ pc1 \in PastIndex =>
          (train_data # <<>> /\ train_target # <<>> /\ test_data # <<>>
           /\ test_target # <<>> /\ labels # <<>>)
    /\ nsaves = (IF pc1 = "done" THEN 1 ELSE 0)
    /\ pc1 = "done" =>
          archive = [present |-> TRUE,
                     train_data |-> train_data, train_target |-> train_target,
                     test_data |-> test_data, test_target |-> test_target,
                     labels |-> labels]
    /\ pc2 \in {"idle", "started", "load_error"} => newsgroups = NoArchive
    /\ pc2 \in {"loaded", "fitted", "scored", "done"} =>
          (archive.present /\ newsgroups = archive)
    /\ pc2 \notin {"fitted", "scored", "done"} => model = NoModel
    /\ pc2 \notin {"scored", "done"} => (pred_acc = <<>> /\ accuracy = NoScore)
    /\ pc2 # "done" => (pred_rep = <<>> /\ report = <<>>)
    /\ ~(pc1 # "idle" /\ pc2 # "idle")

\* the steps a run may take
C9_Order ==
    /\ pc1' # pc1 =>
          <<pc1, pc1'>> \in
              {<<"idle", "started">>, <<"started", "loaded">>,
               <<"loaded", "asserted">>, <<"loaded", "aborted">>,
               <<"asserted", "encoded">>,
               <<"encoded", "vectorized">>, <<"encoded", "vectorize_error">>,
               <<"vectorized", "split">>, <<"vectorized", "split_error">>,
               <<"split", "indexed">>, <<"indexed", "done">>,
               <<"aborted", "idle">>, <<"vectorize_error", "idle">>,
               <<"split_error", "idle">>, <<"done", "idle">>}
    /\ pc2' # pc2 =>
          <<pc2, pc2'>> \in
              {<<"idle", "started">>, <<"started", "loaded">>,
               <<"started", "load_error">>, <<"loaded", "fitted">>,
               <<"fitted", "scored">>, <<"scored", "done">>,
               <<"load_error", "idle">>, <<"done", "idle">>}

\* the archive is written in the save stage only, from the built arrays
C9_ArchiveOnce ==
    /\ archive' # archive \/ nsaves' > nsaves =>
          /\ pc1 = "indexed" /\ pc1' = "done"
          /\ nsaves = 0 /\ nsaves' = 1
          /\ train_data # <<>> /\ train_target # <<>>
          /\ test_data # <<>> /\ test_target # <<>> /\ labels # <<>>
          /\ archive'.train_data = train_data /\ archive'.train_target = train_target
          /\ archive'.test_data = test_data /\ archive'.test_target = test_target
          /\ archive'.labels = labels
    /\ pc1 = "indexed" /\ pc1' = "done" => nsaves' = 1

\* an array that has been built is not changed while its kernel lives
C9_WriteOnce ==
    /\ \A k \in DOMAIN Arrays1 :
          (Arrays1[k] # Blank1 /\ pc1' # "idle") => Arrays1'[k] = Arrays1[k]
    /\ \A k \in DOMAIN Arrays2 :
          (Arrays2[k] # Blank2[k] /\ pc2' # "idle") => Arrays2'[k] = Arrays2[k]

\* with no archive notebook 2 stops at its load; it fits only after a load
C9_NoArchiveNoFit ==
    /\ (pc2 = "started" /\ ~archive.present /\ pc2' # pc2) =>
          (pc2' = "load_error" /\ model' = NoModel /\ accuracy' = NoScore)
    /\ model' # model /\ pc2' # "idle" =>
          (pc2 = "loaded" /\ archive.present /\ newsgroups = archive)

(***************************************************************************)
(* C1.  A corpus walk that yields no file (corpus directory missing,       *)
(* empty, or holding only empty subdirectories) ends the run at the        *)
(* assertion: labels, target, the matrix and the split are never built and *)
(* the archive is never written.                                           *)
(***************************************************************************)
C1_EmptyCorpusAborts ==
    corpus.files = {} =>
        /\ pc1 \in {"idle", "started", "loaded", "aborted"}
        /\ labels = <<>> /\ target = <<>> /\ document_matrix = <<>>
        /\ train_idx = <<>> /\ test_idx = <<>> /\ yielded = 0
        /\ nsaves = 0 /\ archive = NoArchive

C1_Witness ==
    /\ corpus.files = {} /\ corpus.dirs = AllDirs
    /\ pc1 = "aborted"

(***************************************************************************)
(* C2.  Rows and labels are aligned: the file list is sorted, row i of     *)
(* document_matrix is the vector of newsgroup_files[i], target[i] is the   *)
(* code of that file's parent directory, and after the split position k of *)
(* train_data and train_target both come from document train_idx[k]        *)
(* (likewise test_data, test_target and test_idx[k]).                      *)
(***************************************************************************)
C2_Aligned ==
    /\ pc1 \in PastLoad =>
          \A i \in DOMAIN newsgroup_files : \A j \in DOMAIN newsgroup_files :
              i < j => StrLess(newsgroup_files[i], newsgroup_files[j])
    /\ pc1 \in PastEncode =>
          \A i \in DOMAIN newsgroup_files :
              labels[target[i] + 1] = basename(dirname(newsgroup_files[i]))
    /\ pc1 \in PastVectorize =>
          \E K \in KeptSets(TermFreqs(Documents(newsgroup_files)), max_features) :
              /\ \A i \in DOMAIN newsgroup_files :
                    document_matrix[i] = Row(FileAt(newsgroup_files[i]).doc, Columns(Documents(newsgroup_files), K))
              /\ pc1 \in PastIndex =>
                    /\ DOMAIN train_data = DOMAIN train_idx
                    /\ DOMAIN train_target = DOMAIN train_idx
                    /\ DOMAIN test_data = DOMAIN test_idx
                    /\ DOMAIN test_target = DOMAIN test_idx
                    /\ \A k \in DOMAIN train_idx :
                          LET path == newsgroup_files[train_idx[k] + 1]
                          IN  /\ train_data[k] = Row(FileAt(path).doc, Columns(Documents(newsgroup_files), K))
                              /\ labels[train_target[k] + 1] = basename(dirname(path))
                    /\ \A k \in DOMAIN test_idx :
                          LET path == newsgroup_files[test_idx[k] + 1]
                          IN  /\ test_data[k] = Row(FileAt(path).doc, Columns(Documents(newsgroup_files), K))
                              /\ labels[test_target[k] + 1] = basename(dirname(path))

C2_Witness ==
    /\ pc1 = "indexed"
    /\ Len(labels) >= 2
    /\ \E k \in DOMAIN train_idx : train_idx[k] # k - 1
    /\ \E i \in DOMAIN document_matrix : \E j \in DOMAIN document_matrix :
          document_matrix[i] # document_matrix[j]

(***************************************************************************)
(* C3.  As claimed: after a completed split every class of target has a    *)
(* document in the train subset and one in the test subset, and its number *)
(* of test documents differs from 0.2 times its size by less than 1.       *)
(***************************************************************************)
C3_BothSubsetsProportional ==
    pc1 \in PastIndex =>
        \A c \in Range(target) :
            /\ CountOf(train_target, c) >= 1
            /\ CountOf(test_target, c) >= 1
            /\ 5 * CountOf(test_target, c) - CountOf(target, c) < 5
            /\ CountOf(target, c) - 5 * CountOf(test_target, c) < 5

(***************************************************************************)
(* C3 as amended.  After a completed split every class has a document in   *)
(* the train subset; its number of test documents differs by less than 1   *)
(* from its share size * n_test / N of the test subset; and a class of 5   *)
(* or more documents has a test document.  (A class of 2, 3 or 4 documents *)
(* may have none.)                                                         *)
(***************************************************************************)
C3_TrainAlwaysTestByShare ==
    pc1 \in PastIndex =>
        \A c \in Range(target) :
            LET N == Len(target)
                share == CountOf(target, c) * Len(test_target)
                got == CountOf(test_target, c) * N
            IN  /\ CountOf(train_target, c) >= 1
                /\ got - share < N /\ share - got < N
                /\ CountOf(target, c) >= 5 => CountOf(test_target, c) >= 1

C3_Witness ==
    /\ pc1 = "indexed"
    /\ \E c \in Range(target) : CountOf(test_target, c) = 0
    /\ \E c \in Range(target) : CountOf(target, c) >= 5

(***************************************************************************)
(* C4.  No class is dropped and no code lacks a name: the labels of the    *)
(* train and test subsets together are the labels of target, and these are *)
(* exactly the positions 0..len(labels)-1 of the labels array, in the      *)
(* kernel and in the archive written from it.                              *)
(***************************************************************************)
C4_LabelSetsUnion ==
    /\ pc1 \in PastIndex =>
          /\ Range(train_target) \cup Range(test_target) = Range(target)
          /\ Range(target) = 0..(Len(labels) - 1)
    /\ archive.present =>
          Range(archive.train_target) \cup Range(archive.test_target)
              = 0..(Len(archive.labels) - 1)

C4_Witness ==
    /\ pc1 = "done" /\ archive.present
    /\ Len(labels) >= 2
    /\ Range(test_target) # Range(target)

(***************************************************************************)
(* C5.  The split is a partition 80/20: no document is in both subsets,    *)
(* every document 0..N-1 is in exactly one, once; the test subset has      *)
(* ceil(0.2 N) documents and the train subset the others.  For the corpus  *)
(* of 18828 documents that is 3766 test rows, the total support of the     *)
(* recorded report.                                                        *)
(***************************************************************************)
C5_Partition8020 ==
    /\ pc1 \in PastSplit =>
          LET N == Len(newsgroup_files)
              t == Len(test_idx)
          IN  /\ Range(train_idx) \cap Range(test_idx) = {}
              /\ Range(train_idx) \cup Range(test_idx) = 0..(N - 1)
              /\ Len(train_idx) + t = N
              /\ 5 * t >= N /\ 5 * (t - 1) < N
    /\ NTest(corpus_documents) = SumSeq(recorded_support)

C5_Witness ==
    /\ pc1 = "split"
    /\ Len(newsgroup_files) % 5 # 0
    /\ Len(test_idx) >= 2

(***************************************************************************)
(* C6.  Same seed, same split: a preprocessing run over the same corpus    *)
(* yields the train_idx and test_idx of the run before it, element for     *)
(* element, and takes only the first of the two configured splits.         *)
(***************************************************************************)
C6_SameSeedSameSplit ==
    pc1 \in PastSplit =>
        /\ yielded = 1 /\ yielded < n_splits
        /\ prev_split.valid => (train_idx = prev_split.train /\ test_idx = prev_split.test)

C6_Witness ==
    /\ pc1 = "split" /\ prev_split.valid
    /\ Len(labels) >= 2 /\ Len(test_idx) >= 2

(***************************************************************************)
(* C7.  As claimed: for every non-empty corpus the vectorizer gives a      *)
(* matrix with one row per file and min(10000, number of distinct terms)   *)
(* columns, and the train and test matrices have that width.               *)
(***************************************************************************)
C7_WidthEveryCorpus ==
    pc1 \in (PastVectorize \cup {"vectorize_error"}) =>
        /\ Len(document_matrix) = Len(newsgroup_files)
        /\ \A i \in DOMAIN document_matrix :
              RowWidth(document_matrix[i])
                  = Min(max_features, Words(Vocabulary(Documents(newsgroup_files))))

(***************************************************************************)
(* C7 as amended.  For every non-empty corpus holding at least one term (a *)
(* lower-cased token of two or more word characters that is no English     *)
(* stop word) the matrix has one row per file and min(10000, number of     *)
(* distinct terms) columns, never more than 10000, and the train and test  *)
(* matrices have that width; a corpus holding no term ends the run in the  *)
(* vectorizer and no matrix is built.                                      *)
(***************************************************************************)
C7_WidthWhenVocabulary ==
    LET words == Words(Vocabulary(Documents(newsgroup_files)))
    IN  /\ pc1 = "vectorize_error" => (words = 0 /\ document_matrix = <<>>)
        /\ pc1 \in PastVectorize =>
              /\ words > 0
              /\ Len(document_matrix) = Len(newsgroup_files)
              /\ \A i \in DOMAIN document_matrix :
                    /\ RowWidth(document_matrix[i]) = Min(max_features, words)
                    /\ RowWidth(document_matrix[i]) <= max_features
        /\ pc1 \in PastIndex =>
              /\ \A k \in DOMAIN train_data : RowWidth(train_data[k]) = Width(document_matrix)
              /\ \A k \in DOMAIN test_data : RowWidth(test_data[k]) = Width(document_matrix)

C7_Witness ==
    /\ pc1 = "indexed"
    /\ Words(Vocabulary(Documents(newsgroup_files))) > max_features
    /\ Width(document_matrix) = max_features

(***************************************************************************)
(* C8.  Once notebook 2 has evaluated: the accuracy is the number of test  *)
(* documents predicted as their test_target over the number of test        *)
(* documents, so it lies in [0, 1]; that numerator is the diagonal sum of  *)
(* the confusion counts the report is made of and the denominator their    *)
(* total; the supports of the report sum to the number of test documents;  *)
(* and the predictions made for the report are those made for the          *)
(* accuracy.                                                               *)
(***************************************************************************)
C8_AccuracyFromConfusion ==
    /\ pc2 \in {"scored", "done"} =>
          /\ accuracy.den = Len(newsgroups.test_target) /\ accuracy.den > 0
          /\ 0 <= accuracy.num /\ accuracy.num <= accuracy.den
          /\ accuracy.num = Cardinality({k \in DOMAIN pred_acc :
                                            pred_acc[k] = newsgroups.test_target[k]})
    /\ pc2 = "done" =>
          /\ pred_rep = pred_acc
          /\ accuracy.num = SumOver(report, "tp", DOMAIN report)
          /\ accuracy.den = SumOver(report, "tp", DOMAIN report)
                              + SumOver(report, "fn", DOMAIN report)
          /\ SumOver(report, "fp", DOMAIN report) = SumOver(report, "fn", DOMAIN report)
          /\ SumOver(report, "support", DOMAIN report) = Len(newsgroups.test_target)

C8_Witness ==
    /\ pc2 = "done"
    /\ Cardinality(DOMAIN report) >= 2
    /\ 0 < accuracy.num /\ accuracy.num < accuracy.den

(***************************************************************************)
(* C9.  Control flow is linear and every artifact is written once.  In a   *)
(* run of notebook 1 the stages follow in the order load, assertion, label *)
(* encoding, vectorize, split, indexing, save, each building its arrays    *)
(* only once the stage before it is done; in a run of notebook 2 the order *)
(* is load archive, fit, accuracy, report.  The archive changes only in    *)
(* the save stage, once per run, after the four split arrays and labels    *)
(* are built, and holds them.  An array that has been built keeps its      *)
(* value until the kernel is shut down.  Notebook 2 gets past its load     *)
(* only when the archive has been written, and with no archive it ends in  *)
(* an error with no model fitted.                                          *)
(***************************************************************************)
C9_LinearWriteOnce ==
    /\ [](C9_Staged)
    /\ [][C9_Order /\ C9_ArchiveOnce /\ C9_WriteOnce /\ C9_NoArchiveNoFit]_vars

C9_Witness ==
    /\ pc2 = "done" /\ archive.present /\ prev_split.valid
    /\ newsgroups = archive /\ Len(newsgroups.labels) >= 2

(***************************************************************************)
(* C10.  labels is the strictly ascending sequence of the distinct names   *)
(* of the directories that directly hold a file; target has one entry per  *)
(* file, its values are exactly 0..len(labels)-1, and labels[target[i]] is *)
(* the name of the directory directly holding newsgroup_files[i]: the      *)
(* corpus directory's own name '20news-18828' for a file directly in it,   *)
(* the nested directory's name for a file in a nested directory.           *)
(***************************************************************************)
C10_LabelRoundTrip ==
    pc1 \in PastEncode =>
        /\ \A i \in DOMAIN labels : \A j \in DOMAIN labels :
              i < j => StrLess(labels[i], labels[j])
        /\ Range(labels) = {HolderName(f) : f \in corpus.files}
        /\ Len(target) = Len(newsgroup_files)
        /\ Range(target) = 0..(Len(labels) - 1)
        /\ \A i \in DOMAIN newsgroup_files :
              labels[target[i] + 1] = HolderName(FileAt(newsgroup_files[i]))

C10_Witness ==
    /\ pc1 = "encoded"
    /\ Len(labels) >= 3
    /\ RootName \in Range(labels) /\ Old \in Range(labels)
    /\ \E i \in DOMAIN target : \E j \in DOMAIN target : i < j /\ target[i] > target[j]

====
